---- MODULE Spec2Model ----
(***************************************************************************)
(* A model of packages/lists/src/ArrayList.js: a list stored at the front  *)
(* of a sealed, fixed-length array that is replaced by one of twice the    *)
(* length when an insert finds it full.  Array indices are the source's    *)
(* (from 0); toArray() is a TLA+ sequence (from 1).                        *)
(***************************************************************************)
EXTENDS Integers, Sequences, FiniteSets, TLC

\* ---- bounds ----------------------------------------------------------------
\* largest initialCapacity given to the constructor (capacities 1..MaxInitCap)
MaxInitCap == 2
\* no insert is taken that would make the buffer longer than this
MaxCap == 4
\* no push is taken on a stack that was pushed this often without a pop
MaxStack == 3

\* ---- program constants -----------------------------------------------------
\* constructor(initialCapacity = 10)
DefaultCapacity == 10

\* ---- values ----------------------------------------------------------------
Null == "null"
Undefined == "undefined"
\* the number 0: a value that is neither null nor undefined, but falsy
Zero == "0"
\* truthy items
Items == {"a", "b"}
\* what a caller may pass as an item
ItemInputs == Items \cup {Null, Undefined, Zero}
\* what a caller may pass as an index
IndexInputs == -1 .. (MaxCap + 1)

\* JavaScript's !item
Falsy(v) == v \in {Null, Undefined, Zero}

NoErr == "none"

\* the three-way comparators a caller may pass to sort and sorted: both are
\* total orders on the items
Comparators == {"ascending", "descending"}
NoComparator == "none"
Rank(v) == IF v = "a" THEN 1 ELSE IF v = "b" THEN 2 ELSE 0
compare(comparator, x, y) ==
  LET d == IF comparator = "ascending" THEN Rank(x) - Rank(y) ELSE Rank(y) - Rank(x)
  IN  IF d < 0 THEN -1 ELSE IF d > 0 THEN 1 ELSE 0

\* ---- the sealed array ------------------------------------------------------
Length(st) == Cardinality(DOMAIN st)

\* a read past the end of an array gives undefined
Read(st, k) == IF k \in DOMAIN st THEN st[k] ELSE Undefined

getArray(n) == [k \in 0 .. (n - 1) |-> Null]

RECURSIVE ExpandCopy(_, _, _)
ExpandCopy(newStorage, st, i) ==
  IF i < Length(st)
    THEN ExpandCopy([newStorage EXCEPT ![i] = st[i]], st, i + 1)
    ELSE newStorage

expand_growByOne(st) == ExpandCopy(getArray(Length(st) + 1), st, 0)

expand(st) == ExpandCopy(getArray(Length(st) * 2), st, 0)

\* ---- insertion -------------------------------------------------------------
RECURSIVE InsertShift(_, _)
InsertShift(st, current) ==
  IF current > 0
    THEN InsertShift([st EXCEPT ![current] = st[current - 1]], current - 1)
    ELSE st

insert(st, sz, i, item) ==
  IF Falsy(item)
    THEN [storage |-> st, size |-> sz, ret |-> Undefined, err |-> "InvalidItem"]
  ELSE IF i > sz \/ i < 0
    THEN [storage |-> st, size |-> sz, ret |-> Undefined, err |-> "IndexUnavailable"]
  ELSE LET st2 == IF sz = Length(st) THEN expand(st) ELSE st
       IN  IF sz \notin DOMAIN st2
             \* class bodies are strict code: the first write of the call,
             \* at index size, to a sealed array that has no such slot throws
             THEN [storage |-> st2, size |-> sz, ret |-> Undefined, err |-> "TypeError"]
             ELSE [storage |-> [InsertShift(st2, sz) EXCEPT ![i] = item],
                   size |-> sz + 1, ret |-> Undefined, err |-> NoErr]

append(st, sz, item) == insert(st, sz, sz, item)

prepend(st, sz, item) == insert(st, sz, 0, item)

\* ---- removal ---------------------------------------------------------------
RECURSIVE RemoveShift(_, _, _)
RemoveShift(st, sz, current) ==
  IF current < sz
    THEN RemoveShift([st EXCEPT ![current] = Read(st, current + 1)], sz, current + 1)
    ELSE st

remove_offByOne(st, sz, i) ==
  IF sz = 0
    THEN [storage |-> st, size |-> sz, ret |-> Undefined, err |-> "NothingToRemove"]
  ELSE IF i > sz \/ i < 0
    THEN [storage |-> st, size |-> sz, ret |-> Undefined, err |-> "OutOfBounds"]
  ELSE [storage |-> RemoveShift(st, sz, i), size |-> sz - 1,
        ret |-> Read(st, i), err |-> NoErr]

remove_noShift(st, sz, i) ==
  IF sz = 0
    THEN [storage |-> st, size |-> sz, ret |-> Undefined, err |-> "NothingToRemove"]
  ELSE IF i >= sz \/ i < 0
    THEN [storage |-> st, size |-> sz, ret |-> Undefined, err |-> "OutOfBounds"]
  ELSE [storage |-> [st EXCEPT ![i] = Null], size |-> sz - 1,
        ret |-> Read(st, i), err |-> NoErr]

remove(st, sz, i) ==
  IF sz = 0
    THEN [storage |-> st, size |-> sz, ret |-> Undefined, err |-> "NothingToRemove"]
  ELSE IF i >= sz \/ i < 0
    THEN [storage |-> st, size |-> sz, ret |-> Undefined, err |-> "OutOfBounds"]
  ELSE [storage |-> RemoveShift(st, sz, i), size |-> sz - 1,
        ret |-> Read(st, i), err |-> NoErr]

RECURSIVE RemoveFirstShift(_, _)
RemoveFirstShift(st, i) ==
  IF i < Length(st)
    THEN RemoveFirstShift([st EXCEPT ![i - 1] = st[i]], i + 1)
    ELSE st

removeFirst_noEmptyCheck(st, sz) ==
  [storage |-> RemoveFirstShift(st, 1), size |-> sz - 1,
   ret |-> Read(st, 0), err |-> NoErr]

removeFirst(st, sz) ==
  IF sz = 0
    THEN [storage |-> st, size |-> sz, ret |-> Null, err |-> NoErr]
    ELSE [storage |-> RemoveFirstShift(st, 1), size |-> sz - 1,
          ret |-> Read(st, 0), err |-> NoErr]

removeLast_wrongSlot(st, sz) ==
  IF sz = 0
    THEN [storage |-> st, size |-> sz, ret |-> Null, err |-> NoErr]
    ELSE [storage |-> [st EXCEPT ![sz - 1] = Null], size |-> sz - 1,
          ret |-> Read(st, sz), err |-> NoErr]

removeLast(st, sz) ==
  IF sz = 0
    THEN [storage |-> st, size |-> sz, ret |-> Null, err |-> NoErr]
    ELSE [storage |-> [st EXCEPT ![sz - 1] = Null], size |-> sz - 1,
          ret |-> Read(st, sz - 1), err |-> NoErr]

\* the first index from i on whose slot is not != item, or Length(st)
RECURSIVE ScanStorage(_, _, _)
ScanStorage(st, item, i) ==
  IF i < Length(st) /\ st[i] # item THEN ScanStorage(st, item, i + 1) ELSE i

removeItem(st, sz, item) ==
  IF Falsy(item)
    THEN [storage |-> st, size |-> sz, ret |-> -1, err |-> NoErr]
  ELSE LET i == ScanStorage(st, item, 0)
       IN  IF i < Length(st)
             THEN LET r == remove(st, sz, i)
                  IN  IF r.err # NoErr THEN r ELSE [r EXCEPT !.ret = i]
             ELSE [storage |-> st, size |-> sz, ret |-> -1, err |-> NoErr]

\* ---- interrogation ---------------------------------------------------------
contains(st, sz, item) ==
  IF Falsy(item)
    THEN [storage |-> st, size |-> sz, ret |-> FALSE, err |-> "InvalidChoice"]
    ELSE [storage |-> st, size |-> sz,
          ret |-> (ScanStorage(st, item, 0) < Length(st)), err |-> NoErr]

peek(st, sz, i) ==
  IF sz = 0
    THEN [storage |-> st, size |-> sz, ret |-> Undefined, err |-> "ListEmpty"]
  ELSE IF i >= sz \/ i < 0
    THEN [storage |-> st, size |-> sz, ret |-> Undefined, err |-> "PeekOutOfBounds"]
  ELSE [storage |-> st, size |-> sz, ret |-> Read(st, i), err |-> NoErr]

peekFirst_noEmptyCheck(st, sz) ==
  [storage |-> st, size |-> sz, ret |-> Read(st, 0), err |-> NoErr]

peekFirst(st, sz) ==
  IF sz = 0
    THEN [storage |-> st, size |-> sz, ret |-> Null, err |-> NoErr]
    ELSE [storage |-> st, size |-> sz, ret |-> Read(st, 0), err |-> NoErr]

peekLast_removes(st, sz) ==
  IF sz = 0
    THEN [storage |-> st, size |-> sz, ret |-> Null, err |-> NoErr]
    ELSE [storage |-> [st EXCEPT ![sz - 1] = Null], size |-> sz - 1,
          ret |-> Read(st, sz - 1), err |-> NoErr]

peekLast(st, sz) ==
  IF sz = 0
    THEN [storage |-> st, size |-> sz, ret |-> Null, err |-> NoErr]
    ELSE [storage |-> st, size |-> sz, ret |-> Read(st, sz - 1), err |-> NoErr]

sizeOf(st, sz) == [storage |-> st, size |-> sz, ret |-> sz, err |-> NoErr]

RECURSIVE ToArrayLoop(_, _, _, _)
ToArrayLoop(array, st, sz, i) ==
  IF i < sz
    THEN ToArrayLoop(Append(array, Read(st, i)), st, sz, i + 1)
    ELSE array

toArray_wholeBuffer(st, sz) == ToArrayLoop(<< >>, st, Length(st), 0)

toArray(st, sz) == IF sz = 0 THEN << >> ELSE ToArrayLoop(<< >>, st, sz, 0)

\* ---- key algorithms --------------------------------------------------------
\* sort has an empty body: it returns undefined and touches nothing
sort(st, sz, comparator) ==
  [storage |-> st, size |-> sz, ret |-> Undefined, err |-> NoErr]

\* sorted returns new ArrayList(): an empty list of the default capacity
sorted(st, sz, comparator) ==
  [storage |-> st, size |-> sz,
   ret |-> [storage |-> getArray(DefaultCapacity), size |-> 0], err |-> NoErr]

\* ---- Stack ----------------------------------------------------------------
\* The class has no field and every method has an empty body: each call
\* returns undefined, throws nothing and keeps nothing.
Stack_push(item) == [ret |-> Undefined, err |-> NoErr]

Stack_pop == [ret |-> Undefined, err |-> NoErr]

Stack_peek == [ret |-> Undefined, err |-> NoErr]

Stack_isEmpty == [ret |-> Undefined, err |-> NoErr]

\* JavaScript's true and false, as values a Stack method may return
JsTrue == "true"
JsFalse == "false"

\* ---- state -----------------------------------------------------------------
VARIABLES
  storage,      \* this._storage
  size,         \* this._size
  pre,          \* _storage and _size when the last call was made
  last,         \* the last call: its name, arguments, result and error
  onlyAppends,  \* every call so far was a successful append
  appended,     \* the items of those appends, in order
  inserted,     \* the items passed to a call of insert that succeeded
  initialCapacity, \* the constructor's argument
  pushed,       \* Stack: the items pushed and not yet popped, oldest first,
                \* as the calls made so far define them
  stackLast     \* Stack: the last call, its result, and pushed before it

listVars == << storage, size, pre, last, onlyAppends, appended, inserted, initialCapacity >>

stackVars == << pushed, stackLast >>

vars == << storage, size, pre, last, onlyAppends, appended, inserted,
           initialCapacity, pushed, stackLast >>

Init ==
  /\ initialCapacity \in 1 .. MaxInitCap
  /\ storage = getArray(initialCapacity)
  /\ size = 0
  /\ pre = [storage |-> storage, size |-> 0]
  /\ last = [op |-> "constructor", i |-> 0, item |-> Null, comparator |-> NoComparator,
             ret |-> Undefined, err |-> NoErr]
  /\ onlyAppends = TRUE
  /\ appended = << >>
  /\ inserted = {}
  /\ pushed = << >>
  /\ stackLast = [op |-> "constructor", item |-> Null, ret |-> Undefined,
                  err |-> NoErr, before |-> << >>]

\* the ArrayList call op(i, item, comparator) was made and ended as r
CallWith(op, i, item, comparator, r) ==
  /\ Length(r.storage) <= MaxCap
  /\ storage' = r.storage
  /\ size' = r.size
  /\ pre' = [storage |-> storage, size |-> size]
  /\ last' = [op |-> op, i |-> i, item |-> item, comparator |-> comparator,
              ret |-> r.ret, err |-> r.err]
  /\ onlyAppends' = (onlyAppends /\ op = "append" /\ r.err = NoErr)
  /\ appended' = IF onlyAppends' THEN Append(appended, item) ELSE << >>
  /\ inserted' = IF op \in {"insert", "append", "prepend"} /\ r.err = NoErr
                   THEN inserted \cup {item} ELSE inserted
  /\ UNCHANGED << initialCapacity, pushed, stackLast >>

Call(op, i, item, r) == CallWith(op, i, item, NoComparator, r)

Insert ==
  \E i \in IndexInputs, item \in ItemInputs :
    Call("insert", i, item, insert(storage, size, i, item))

AppendItem ==
  \E item \in ItemInputs : Call("append", size, item, append(storage, size, item))

Prepend ==
  \E item \in ItemInputs : Call("prepend", 0, item, prepend(storage, size, item))

Remove ==
  \E i \in IndexInputs : Call("remove", i, Null, remove(storage, size, i))

RemoveFirst == Call("removeFirst", 0, Null, removeFirst(storage, size))

RemoveLast == Call("removeLast", 0, Null, removeLast(storage, size))

RemoveItem ==
  \E item \in ItemInputs : Call("removeItem", 0, item, removeItem(storage, size, item))

Contains ==
  \E item \in ItemInputs : Call("contains", 0, item, contains(storage, size, item))

Peek ==
  \E i \in IndexInputs : Call("peek", i, Null, peek(storage, size, i))

PeekFirst == Call("peekFirst", 0, Null, peekFirst(storage, size))

PeekLast == Call("peekLast", 0, Null, peekLast(storage, size))

Size == Call("size", 0, Null, sizeOf(storage, size))

ToArray ==
  Call("toArray", 0, Null,
       [storage |-> storage, size |-> size, ret |-> toArray(storage, size), err |-> NoErr])

Sort ==
  \E comparator \in Comparators :
    CallWith("sort", 0, Null, comparator, sort(storage, size, comparator))

Sorted ==
  \E comparator \in Comparators :
    CallWith("sorted", 0, Null, comparator, sorted(storage, size, comparator))

Next ==
  \/ Insert
  \/ AppendItem
  \/ Prepend
  \/ Remove
  \/ RemoveFirst
  \/ RemoveLast
  \/ RemoveItem
  \/ Contains
  \/ Peek
  \/ PeekFirst
  \/ PeekLast
  \/ Size
  \/ ToArray
  \/ Sort
  \/ Sorted

Spec == Init /\ [][Next]_vars

\* ---- Stack: calls ----------------------------------------------------------
\* the Stack call op(item) was made and ended as r; what it does to pushed is
\* what the call means, whatever the method did
StackCall(op, item, r, pushedAfter) ==
  /\ stackLast' = [op |-> op, item |-> item, ret |-> r.ret, err |-> r.err,
                   before |-> pushed]
  /\ pushed' = pushedAfter
  /\ UNCHANGED listVars

Push ==
  /\ Len(pushed) < MaxStack
  /\ \E item \in ItemInputs :
       StackCall("push", item, Stack_push(item),
                 IF item \in {Null, Undefined} THEN pushed ELSE Append(pushed, item))

Pop ==
  StackCall("pop", Null, Stack_pop,
            IF pushed = << >> THEN pushed ELSE SubSeq(pushed, 1, Len(pushed) - 1))

StackPeek == StackCall("peek", Null, Stack_peek, pushed)

IsEmpty == StackCall("isEmpty", Null, Stack_isEmpty, pushed)

StackNext ==
  \/ Push
  \/ Pop
  \/ StackPeek
  \/ IsEmpty

StackSpec == Init /\ [][StackNext]_vars

TypeOK ==
  /\ size \in 0 .. MaxCap
  /\ Length(storage) \in 1 .. MaxCap
  /\ \A k \in DOMAIN storage : storage[k] \in Items \cup {Null, Undefined}

\* ---- sequences, for stating the properties ---------------------------------
\* s with x placed at (0-based) position i
InsertAt(s, i, x) == SubSeq(s, 1, i) \o << x >> \o SubSeq(s, i + 1, Len(s))

\* s without the element at (0-based) position i
RemoveAt(s, i) == SubSeq(s, 1, i) \o SubSeq(s, i + 2, Len(s))

Elements(s) == {s[k] : k \in 1 .. Len(s)}

\* the (0-based) position of the first x in s
FirstIndex(s, x) == (CHOOSE k \in 1 .. Len(s) : s[k] = x /\ \A j \in 1 .. (k - 1) : s[j] # x) - 1

NonNull(v) == v \notin {Null, Undefined}

list == toArray(storage, size)

preList == toArray(pre.storage, pre.size)

\* ---- C1 --------------------------------------------------------------------
\* C1: after insert(i, x) with 0 <= i <= size(), toArray() is the previous
\* toArray() with x placed at position i: the items before i stay, the items
\* from i on move one position toward the end.  x ranges over the items that
\* pass insert's item check, which are among the claim's non-null items.
C1_InsertPlacesItemAtIndex ==
  (last.op = "insert" /\ last.item \in Items /\ last.i \in 0 .. pre.size)
    => (last.err = NoErr /\ list = InsertAt(preList, last.i, last.item))

\* ---- C2 --------------------------------------------------------------------
\* C2: after append(x1), ..., append(xn) on a new list, size() = n and
\* toArray() = [x1, ..., xn], also when the buffer was reallocated on the way.
C2_AppendsKeepInsertionOrder ==
  onlyAppends => (size = Len(appended) /\ list = appended)

\* ---- C3 --------------------------------------------------------------------
\* C3: contains(x) returns true exactly when x is one of the size() items of
\* the list; on a list with no items it returns false.
C3_ContainsIffInList ==
  (last.op = "contains" /\ last.item \in Items)
    => (last.err = NoErr /\ last.ret = (last.item \in Elements(list)))

\* ---- C4 --------------------------------------------------------------------
\* C4: removeItem(x) never raises an error; for a null/absent x or an x that is
\* not in the list it returns -1 and leaves the list as it was, otherwise it
\* returns the smallest index holding x and removes exactly that element.
C4_RemoveItemRemovesFirstOrReturnsMinusOne ==
  (last.op = "removeItem")
    => /\ last.err = NoErr
       /\ IF ~NonNull(last.item) \/ last.item \notin Elements(preList)
            THEN last.ret = -1 /\ size = pre.size /\ list = preList
            ELSE /\ last.ret = FirstIndex(preList, last.item)
                 /\ list = RemoveAt(preList, last.ret)

\* ---- C5 --------------------------------------------------------------------
\* C5: every slot in [size, capacity) holds the empty marker null.
C5_SlotsPastSizeAreNull ==
  \A k \in DOMAIN storage : k >= size => storage[k] = Null

\* ---- C6 --------------------------------------------------------------------
\* C6: 0 <= size <= capacity in every reachable state, the states right after
\* an insert into a full buffer included.
C6_SizeWithinCapacity == 0 <= size /\ size <= Length(storage)

C6_Witness_InsertedIntoFullBuffer ==
  /\ last.op \in {"insert", "append", "prepend"}
  /\ last.err = NoErr
  /\ pre.size = Length(pre.storage)
  /\ size = pre.size + 1
  /\ Length(storage) = 2 * Length(pre.storage)

\* ---- C7 --------------------------------------------------------------------
\* C7: for every non-null item x and every i with 0 <= i <= size(), after
\* insert(i, x) the call peek(i) returns x and size() is one more than before.
C7_InsertThenPeekReturnsItem ==
  (last.op = "insert" /\ NonNull(last.item) /\ last.i \in 0 .. pre.size)
    => /\ last.err = NoErr
       /\ size = pre.size + 1
       /\ peek(storage, size, last.i).err = NoErr
       /\ peek(storage, size, last.i).ret = last.item

\* ---- C8 --------------------------------------------------------------------
\* C8: remove(i) with 0 <= i < size() returns the item that was at index i,
\* makes size() one less and leaves toArray() as the previous toArray() without
\* the element at i, also when the buffer is full.
C8_RemoveDeletesItemAtIndex ==
  (last.op = "remove" /\ last.i \in 0 .. (pre.size - 1))
    => /\ last.err = NoErr
       /\ last.ret = preList[last.i + 1]
       /\ size = pre.size - 1
       /\ list = RemoveAt(preList, last.i)

C8_Witness_RemovedInsideFullBuffer ==
  /\ last.op = "remove"
  /\ last.err = NoErr
  /\ pre.size = Length(pre.storage)
  /\ pre.size >= 3
  /\ last.i \in 1 .. (pre.size - 2)
  /\ preList[last.i + 1] # preList[last.i + 2]

\* ---- C9 --------------------------------------------------------------------
\* C9: remove(i) followed by insert(i, x) leaves a list of the same size whose
\* toArray() is the original one except that position i holds x.
C9_RemoveThenInsertReplaces ==
  \A i \in 0 .. (size - 1) : \A x \in Items :
    LET r == remove(storage, size, i)
        s == insert(r.storage, r.size, i, x)
    IN  /\ r.err = NoErr
        /\ s.err = NoErr
        /\ s.size = size
        /\ toArray(s.storage, s.size) = [list EXCEPT ![i + 1] = x]

\* ---- C10 -------------------------------------------------------------------
\* C10: insert(i, x) fails when i < 0 or i > size() and its index check accepts
\* i = size(); remove(i) and peek(i) fail when i < 0 or i >= size(); a failed
\* call leaves size(), toArray() and the capacity as they were.
C10_IndexErrorsHaveNoEffect ==
  /\ (last.op = "insert" /\ (last.i < 0 \/ last.i > pre.size)) => last.err # NoErr
  /\ (last.op = "insert" /\ last.i \in 0 .. pre.size) => last.err # "IndexUnavailable"
  /\ (last.op = "insert" /\ last.i \in 0 .. pre.size /\ ~Falsy(last.item))
        => last.err = NoErr
  /\ (last.op \in {"remove", "peek"})
        => (last.err # NoErr <=> (last.i < 0 \/ last.i >= pre.size))
  /\ (last.op \in {"insert", "remove", "peek"} /\ last.err # NoErr)
        => (size = pre.size /\ list = preList /\ storage = pre.storage)

C10_Witness_RemoveAtSizeRejected ==
  /\ last.op = "remove"
  /\ pre.size > 0
  /\ last.i = pre.size
  /\ last.err # NoErr
  /\ list = preList

\* ---- C11 -------------------------------------------------------------------
\* C11: on a list with size() = 0, however it was reached, removeFirst(),
\* removeLast(), peekFirst() and peekLast() return null without an error and
\* leave the list empty; remove(i) and peek(i) raise an error there.
C11_EmptyListSentinelOrError ==
  /\ (last.op \in {"removeFirst", "removeLast", "peekFirst", "peekLast"} /\ pre.size = 0)
        => (last.err = NoErr /\ last.ret = Null /\ size = 0 /\ list = << >>)
  /\ (last.op \in {"remove", "peek"} /\ pre.size = 0) => last.err # NoErr

C11_Witness_PeekFirstOnEmptiedList ==
  /\ last.op = "peekFirst"
  /\ pre.size = 0
  /\ pre.storage[0] \in Items
  /\ last.ret = Null

\* ---- C12 -------------------------------------------------------------------
\* C12: peek(i), peekFirst(), peekLast(), contains(x), size() and toArray()
\* leave the buffer, the capacity and size as they were, whether they succeed
\* or fail.
ReadOnlyOps == {"peek", "peekFirst", "peekLast", "contains", "size", "toArray"}

C12_ReadOnlyOpsChangeNothing ==
  (last.op \in ReadOnlyOps)
    => (storage = pre.storage /\ size = pre.size /\ list = preList)

C12_Witness_PeekLastReturnedItem ==
  /\ last.op = "peekLast"
  /\ last.err = NoErr
  /\ size >= 2
  /\ last.ret \in Items

\* ---- C13 -------------------------------------------------------------------
\* C13: toArray() returns a sequence of exactly size() elements, each of them
\* an item that was passed to a successful insert, none null or undefined.
C13_ToArrayHoldsSizeInsertedItems ==
  /\ Len(list) = size
  /\ \A k \in 1 .. Len(list) : list[k] \in inserted /\ NonNull(list[k])
  /\ (last.op = "toArray") => last.ret = list

C13_Witness_ToArrayBesideUndefinedSlot ==
  /\ last.op = "toArray"
  /\ size >= 1
  /\ \E k \in DOMAIN storage : k >= size /\ storage[k] = Undefined

\* ---- C14 -------------------------------------------------------------------
IsSorted(s, comparator) ==
  \A k \in 1 .. (Len(s) - 1) : compare(comparator, s[k], s[k + 1]) <= 0

Count(s, x) == Cardinality({k \in 1 .. Len(s) : s[k] = x})

IsPermutation(s, t) ==
  Len(s) = Len(t) /\ \A x \in Elements(s) \cup Elements(t) : Count(s, x) = Count(t, x)

\* C14: after sort(comparator) the list's toArray() is a permutation of the
\* previous one with comparator(a[k], a[k+1]) <= 0 for every adjacent pair, and
\* size() is unchanged.
C14_SortOrdersList ==
  (last.op = "sort")
    => /\ size = pre.size
       /\ IsPermutation(list, preList)
       /\ IsSorted(list, last.comparator)

\* ---- C15 -------------------------------------------------------------------
\* C15: sorted(comparator) returns a new list of the original's size whose
\* toArray() is a permutation of the original's in non-decreasing comparator
\* order, and leaves the original's size() and toArray() unchanged.
C15_SortedReturnsOrderedCopy ==
  (last.op = "sorted")
    => /\ last.ret.size = pre.size
       /\ IsPermutation(toArray(last.ret.storage, last.ret.size), preList)
       /\ IsSorted(toArray(last.ret.storage, last.ret.size), last.comparator)
       /\ size = pre.size
       /\ list = preList

\* ---- C16 -------------------------------------------------------------------
\* C16: pop() returns the most recently pushed item that was not yet popped,
\* peek() returns the same item, and isEmpty() is true exactly when every
\* pushed item was popped.
C16_StackIsLastInFirstOut ==
  /\ (stackLast.op \in {"pop", "peek"} /\ stackLast.before # << >>)
        => /\ stackLast.err = NoErr
           /\ stackLast.ret = stackLast.before[Len(stackLast.before)]
  /\ (stackLast.op = "isEmpty")
        => stackLast.ret = (IF stackLast.before = << >> THEN JsTrue ELSE JsFalse)

\* ---- C17 -------------------------------------------------------------------
\* C17: on a stack holding no items pop() and peek() fail with an error, and
\* push(item) fails with an error for a null/absent item.
C17_StackErrors ==
  /\ (stackLast.op \in {"pop", "peek"} /\ stackLast.before = << >>)
        => stackLast.err # NoErr
  /\ (stackLast.op = "push" /\ stackLast.item \in {Null, Undefined})
        => stackLast.err # NoErr

\* ---- C18 -------------------------------------------------------------------
InsertOps == {"insert", "append", "prepend"}

\* the last call was an insert that was let through on a full buffer
InsertedIntoFull ==
  last.op \in InsertOps /\ last.err = NoErr /\ pre.size = Length(pre.storage)

\* C18: the capacity changes only in an insert made while size = capacity,
\* where it becomes twice what it was and the new buffer holds the old items
\* at their indices before the item is placed; in every other step it is
\* unchanged, so it never decreases and is initialCapacity * 2^k.
C18_CapacityOnlyDoublesOnFullInsert ==
  /\ InsertedIntoFull
        => /\ Length(storage) = 2 * Length(pre.storage)
           /\ Length(expand(pre.storage)) = 2 * Length(pre.storage)
           /\ \A k \in DOMAIN pre.storage : expand(pre.storage)[k] = pre.storage[k]
  /\ ~InsertedIntoFull => Length(storage) = Length(pre.storage)
  /\ Length(storage) >= Length(pre.storage)
  /\ \E k \in 0 .. MaxCap : Length(storage) = initialCapacity * (2 ^ k)

C18_Witness_SecondDoubling ==
  /\ InsertedIntoFull
  /\ initialCapacity = 1
  /\ pre.size = 2
  /\ Length(storage) = 4

\* ---- C19 -------------------------------------------------------------------
\* C19: on a non-empty list removeFirst() returns the same item and leaves the
\* same size() and toArray() as remove(0), and removeLast() the same as
\* remove(size() - 1), full buffers included.
C19_RemoveFirstLastAgreeWithRemove ==
  /\ (last.op = "removeFirst" /\ pre.size > 0)
        => LET r == remove(pre.storage, pre.size, 0)
           IN  /\ last.err = r.err
               /\ last.ret = r.ret
               /\ size = r.size
               /\ list = toArray(r.storage, r.size)
  /\ (last.op = "removeLast" /\ pre.size > 0)
        => LET r == remove(pre.storage, pre.size, pre.size - 1)
           IN  /\ last.err = r.err
               /\ last.ret = r.ret
               /\ size = r.size
               /\ list = toArray(r.storage, r.size)

C19_Witness_RemoveFirstOnFullBuffer ==
  /\ last.op = "removeFirst"
  /\ pre.size = Length(pre.storage)
  /\ pre.size >= 2
  /\ storage # remove(pre.storage, pre.size, 0).storage
  /\ list = toArray(remove(pre.storage, pre.size, 0).storage, size)

\* ---- C20 -------------------------------------------------------------------
\* C20: insert(i, item) with a valid index fails, leaving the list unchanged,
\* exactly when item is null or undefined, and succeeds for every other value,
\* 0 included; contains(item) raises an error only for a null or undefined
\* item.
C20_OnlyNullItemsAreRejected ==
  /\ (last.op = "insert" /\ last.i \in 0 .. pre.size)
        => /\ last.err # NoErr <=> ~NonNull(last.item)
           /\ last.err # NoErr => (size = pre.size /\ list = preList)
  /\ (last.op = "contains") => (last.err # NoErr <=> ~NonNull(last.item))
====
